---------------------------- MODULE Spec2Model ----------------------------
(***************************************************************************)
(* A model of src/pubchem-crawler/crawl.py: the incremental mirror         *)
(* (PubchemLoader: __diff, __download_file, full_download) and the         *)
(* extraction walk (Extractor: __gunzip_content, extract).                 *)
(*                                                                         *)
(* File names are sequences of tokens, "." being a token of its own, so    *)
(* that pathlib's suffix, with_suffix("") and glob are computed on the     *)
(* name and not looked up: "a.gz.md5" is <<"a", ".", "gz", ".", "md5">>.   *)
(* A path is <<directory, name>>.  The local file system maps a path to    *)
(* what the file holds.                                                    *)
(*                                                                         *)
(* The errors of a mirror run are the transport's: opening the session,    *)
(* listing the directory and fetching a file may each raise.  The listing  *)
(* of a mirror run is a flat list of full paths under the directory listed *)
(* and is the same at every call.  The errors of the extraction walk are   *)
(* gzip's and the handler's.                                               *)
(***************************************************************************)
EXTENDS Naturals, Sequences, FiniteSets

VARIABLES
    local,      \* the local file system under target_dir: path -> content
    dirs,       \* the local directories that exist under target_dir
    listing,    \* what ftp_.list(source_dir) returns: a sequence of paths
    missing,    \* the paths the last direct __diff call yielded
    dext,       \* the extension that call was given ("" : none yet)
    stack,      \* the active full_download calls, innermost last
    result,     \* of the top-level full_download: idle, running, returned, raised
    prev,       \* the result of the top-level call before this one
    runs,       \* top-level calls of full_download so far
    snapshot,   \* the local file system when the top-level call began
    log,        \* transport and file operations of the top-level call, in order
    nopen,      \* transport sessions open
    slept,      \* seconds slept by the top-level call
    other,      \* a second instance of the tool on the same target_dir: the
                \* eight variables above as they are for it while it waits
    disk,       \* the directory extract walks: name -> content
    disk0,      \* that directory when extract began
    walk,       \* the files os.walk listed that the loop has yet to visit
    xpc,        \* extract: idle, walk, handler, done, raised
    xcur,       \* the archive being processed and its decompressed sibling
    handled,    \* the paths given to the handler, in order
    processed,  \* the archives the loop is through with
    xlog,       \* the archives logging.error was called for
    xerr        \* the exception the last archive ended with ("none": none)

fsVars == <<local, dirs, listing>>
diffVars == <<missing, dext>>
syncVars == <<stack, result, prev, runs, snapshot, log, nopen, slept, other>>
xVars == <<disk, disk0, walk, xpc, xcur, handled, processed, xlog, xerr>>
vars == <<local, dirs, listing, missing, dext, stack, result, prev, runs,
          snapshot, log, nopen, slept, other, disk, disk0, walk, xpc, xcur,
          handled, processed, xlog, xerr>>

(***************************************************************************)
(* Names and paths (pathlib)                                               *)
(***************************************************************************)
Dot == "."

\* Path(".../stem.ext").name
Nm(stem, ext) == <<stem, Dot, ext>>

\* PubchemLoader.sup_extensions, in the order of the source ("Order make sense")
sup_extensions == << <<Dot, "md5">>, <<Dot, "gz">> >>

\* f"{self.target}/CURRENT-Full/{self.fmt}": the one remote directory mirrored
source_dir == "pubchem/Compound/CURRENT-Full/SDF"

\* some other directory, remote or local
other_dir == "pubchem/Compound/Extras"

SetMax(S) == CHOOSE x \in S : \A y \in S : y <= x

\* PurePath.suffix: the name from its last dot on, unless that dot is the
\* first or the last character of the name
Suffix(name) ==
    LET dots == {i \in 1..Len(name) : name[i] = Dot}
    IN  IF dots = {} THEN <<>>
        ELSE LET i == SetMax(dots)
             IN  IF 1 < i /\ i < Len(name) THEN SubSeq(name, i, Len(name))
                 ELSE <<>>

\* PurePath.name and PurePath.parent of a path
BaseName(p) == p[2]
Parent(p) == p[1]
\* the / operator
Join(dir, name) == <<dir, name>>

\* fnmatch of a name against the pattern "*.<ext>": the name ends in ".<ext>"
\* (pathlib's * also matches a leading dot, and the match is case-sensitive)
MatchStarDot(name, ext) ==
    /\ Len(name) >= 2
    /\ name[Len(name) - 1] = Dot
    /\ name[Len(name)] = ext

Range(s) == {s[i] : i \in 1..Len(s)}

(***************************************************************************)
(* The local file system                                                   *)
(***************************************************************************)
\* what a local file holds: nothing (no such file), the bytes it had before
\* the run, the bytes of an interrupted transfer, or the whole remote file
Absent == "absent"
Contents == {"absent", "old", "partial", "full"}

Exists(fs, p) == fs[p] # Absent

\* Path.glob("*.<ext>") in directory dir of file system fs
Glob(fs, dir, ext) ==
    {p \in DOMAIN fs : /\ Parent(p) = dir
                       /\ Exists(fs, p)
                       /\ MatchStarDot(BaseName(p), ext)}

(***************************************************************************)
(* PubchemLoader.get_names and PubchemLoader.__diff                        *)
(***************************************************************************)
get_names(paths) == {BaseName(p) : p \in paths}

\* __diff without the subtraction of the local names
DiffNamesNoTargets(fs, dir, file_list, ext) ==
    {x \in get_names(Range(file_list)) : Suffix(x) = <<Dot, ext>>}

\* str.lower on the letters of the model, and on a name
Lower(tok) == IF tok = "A" THEN "a" ELSE tok
LowerName(name) == [i \in 1..Len(name) |-> Lower(name[i])]

\* __diff comparing the names without regard to letter case
DiffNamesFoldCase(fs, dir, file_list, ext) ==
    LET targets == get_names(Glob(fs, dir, ext))
        sources == {x \in get_names(Range(file_list)) : Suffix(x) = <<Dot, ext>>}
    IN  {x \in sources : LowerName(x) \notin {LowerName(t) : t \in targets}}

\* the names __diff finds missing: remote names of the class minus local ones
DiffNames(fs, dir, file_list, ext) ==
    LET targets == get_names(Glob(fs, dir, ext))
        sources == {x \in get_names(Range(file_list)) : Suffix(x) = <<Dot, ext>>}
    IN  sources \ targets

\* the paths __diff yields: ftp_dir / name for every missing name, ftp_dir
\* being the parent of the first entry of the listing
Diff(fs, dir, file_list, ext) ==
    LET diff_names == DiffNames(fs, dir, file_list, ext)
    IN  IF diff_names # {}
        THEN {Join(Parent(file_list[1]), name) : name \in diff_names}
        ELSE {}

(***************************************************************************)
(* The files of the model                                                  *)
(***************************************************************************)
\* the names a mirror run meets: two sidecars, two payloads and a remote
\* entry of neither class
SyncNames ==
    {Nm("a", "md5"), Nm("b", "md5"), Nm("a", "gz"), Nm("b", "gz"), Nm("c", "txt")}

\* more names for __diff alone: another letter case, a name that is only an
\* extension (glob matches it, suffix is empty), a name with two suffixes
OddNames ==
    {Nm("A", "md5"), <<Dot, "md5">>, <<"a", Dot, "gz", Dot, "md5">>}

AllNames == SyncNames \cup OddNames
\* the local paths of the model: the mirrored directory, and two sidecars in
\* another directory
AllPaths ==
    ({source_dir} \X AllNames)
        \cup ({other_dir} \X {Nm("a", "md5"), Nm("b", "md5")})

NoPath == <<"", <<>>>>

EmptyFs == [p \in AllPaths |-> Absent]

\* the file system that holds exactly the paths of S, each with its old bytes
FsOf(S) == [p \in AllPaths |-> IF p \in S THEN "old" ELSE Absent]

\* the sequences over S of length at most n
SeqsUpTo(S, n) == UNION {[1..k -> S] : k \in 0..n}

\* one sequence that lists the set S
SeqOf(S) == CHOOSE s \in [1..Cardinality(S) -> S] : Range(s) = S

\* the longest listing given to __diff directly
MaxList == 2

(***************************************************************************)
(* The directory extract walks                                             *)
(***************************************************************************)
\* two archives and an archive of an archive, the names they decompress
\* to, and a file that is no archive
ExNames ==
    {Nm("a", "gz"), Nm("b", "gz"), <<"a", Dot, "gz", Dot, "gz">>,
     <<"a">>, <<"b">>, Nm("c", "txt")}

\* what a file of that directory holds: nothing (no such file); a
\* well-formed gzip stream; a gzip stream cut short; bytes that are no gzip
\* stream; the bytes a file that is no archive had before the walk; the
\* bytes __gunzip_content wrote; nothing yet (opened "wb", never written)
DiskContents ==
    {"absent", "gzip", "truncated", "notgzip", "data", "extracted", "empty"}

NoName == <<>>

EmptyDisk == [n \in ExNames |-> Absent]

(***************************************************************************)
(* State of the components that are not running                            *)
(***************************************************************************)
DiffIdle == missing = {} /\ dext = ""

ExtractIdle ==
    /\ disk = EmptyDisk
    /\ disk0 = EmptyDisk
    /\ walk = <<>>
    /\ xpc = "idle"
    /\ xcur = <<NoName, NoName>>
    /\ handled = <<>>
    /\ processed = {}
    /\ xlog = {}
    /\ xerr = "none"

\* no second instance
NoInstance ==
    [stack |-> <<>>, result |-> "idle", prev |-> "idle", runs |-> 0,
     snapshot |-> <<>>, log |-> <<>>, nopen |-> 0, slept |-> 0]

SyncIdle ==
    /\ other = NoInstance
    /\ stack = <<>>
    /\ result = "idle"
    /\ prev = "idle"
    /\ runs = 0
    /\ snapshot = local
    /\ log = <<>>
    /\ nopen = 0
    /\ slept = 0

(***************************************************************************)
(* __diff called directly, on any listing and any local directory          *)
(***************************************************************************)
\* local files __diff may find: any names in the mirrored directory, and a
\* sidecar in another directory
DiffLocalPaths ==
    ({source_dir} \X (AllNames \ {Nm("b", "gz"), Nm("c", "txt")}))
        \cup {Join(other_dir, Nm("b", "md5"))}

\* remote entries: full paths under the mirrored directory, and two under
\* another one
DiffRemotePaths ==
    ({source_dir} \X (AllNames \ {Nm("b", "gz"), Nm("c", "txt")}))
        \cup {Join(other_dir, Nm("a", "md5")), Join(other_dir, Nm("b", "md5"))}

InitDiff ==
    /\ \E S \in SUBSET DiffLocalPaths : local = FsOf(S)
    /\ dirs = {source_dir, other_dir}
    /\ listing \in SeqsUpTo(DiffRemotePaths, MaxList)
    /\ DiffIdle
    /\ SyncIdle
    /\ ExtractIdle

\* self.__diff(source_dir, source_file_list, ext_[1:]) run to exhaustion
DiffCall ==
    /\ dext = ""
    /\ \E e \in 1..Len(sup_extensions) :
          /\ dext' = sup_extensions[e][2]
          /\ missing' = Diff(local, source_dir, listing, sup_extensions[e][2])
    /\ UNCHANGED <<fsVars, syncVars, xVars>>

NextDiff == DiffCall

SpecDiff == InitDiff /\ [][NextDiff]_vars

(***************************************************************************)
(* full_download and __download_file                                       *)
(*                                                                         *)
(* One frame per active full_download call.  A frame's pc:                 *)
(*   connect  about to open the session (FTP(...), line 94)                *)
(*   list     about to list and diff the class ext (lines 95-98)           *)
(*   iter     in the for loop over what __diff yields (line 96)            *)
(*   open     in __download_file, about to open(pth, "xb") (line 56)       *)
(*   get      the file is created, ftp_.get is next (line 57)              *)
(*   except   ftp_.get has raised, the handler of line 102 is next         *)
(* Only the innermost frame runs; the others wait in their handler for the *)
(* full_download they called (line 106) and go on with their loop after.   *)
(***************************************************************************)
\* time.sleep(5)
BackoffSeconds == 5

\* top-level calls of full_download in one behaviour
MaxRuns == 2

Ev(op, arg) == [op |-> op, arg |-> arg]

NewFrame == [pc |-> "connect", ext |-> 1, todo |-> {}, cur |-> NoPath]

Top == stack[Len(stack)]
SetTop(f) == [stack EXCEPT ![Len(stack)] = f]
Running == stack # <<>>
At(pc) == Running /\ Top.pc = pc

\* a checksum that finds every file invalid
checksum_fails(target_file) == FALSE

\* __checksum: "todo: create checksum functionality"
checksum(target_file) == TRUE

\* download(arg_ns): loader.full_download()
Call ==
    /\ ~Running
    /\ runs < MaxRuns
    /\ runs' = runs + 1
    /\ prev' = result
    /\ result' = "running"
    /\ snapshot' = local
    /\ log' = <<>>
    /\ slept' = 0
    /\ stack' = <<NewFrame>>
    /\ UNCHANGED <<fsVars, diffVars, xVars, other, nopen>>

\* what FTP.__exit__ does for n sessions in turn: conn.close() returns, or
\* raises an Exception that is passed to logging.error and goes no further
CloseEvents(n) == [1..n -> {Ev("close", NoPath), Ev("close-error", NoPath)}]

\* an exception leaves full_download: every with block on the way out closes
\* its session, and the exception reaches the caller of the top-level call
Propagate(op) ==
    /\ stack' = <<>>
    /\ nopen' = 0
    /\ result' = "raised"
    /\ \E cs \in CloseEvents(nopen) : log' = Append(log, Ev(op, NoPath)) \o cs

\* with FTP(self.ftp, "anonymous", ...) as ftp_
Connect ==
    /\ At("connect")
    /\ nopen' = nopen + 1
    /\ stack' = SetTop([Top EXCEPT !.pc = "list"])
    /\ log' = Append(log, Ev("connect", NoPath))
    /\ UNCHANGED <<fsVars, diffVars, xVars, other, result, prev, runs, snapshot, slept>>

\* ftpretty(...) raises: line 94 is outside the try of line 99
ConnectFails ==
    /\ At("connect")
    /\ Propagate("connect-error")
    /\ UNCHANGED <<fsVars, diffVars, xVars, other, prev, runs, snapshot, slept>>

\* ftp_.list(source_dir), then __diff up to its first yield
List ==
    /\ At("list")
    /\ stack' = SetTop([Top EXCEPT
            !.pc = "iter",
            !.todo = Diff(local, source_dir, listing,
                          sup_extensions[Top.ext][2])])
    /\ log' = Append(log, Ev("list", <<source_dir, sup_extensions[Top.ext]>>))
    /\ UNCHANGED <<fsVars, diffVars, xVars, other, result, prev, runs, snapshot, nopen, slept>>

\* ftp_.list raises: the for header of line 96 is outside the try of line 99
ListFails ==
    /\ At("list")
    /\ Propagate("list-error")
    /\ UNCHANGED <<fsVars, diffVars, xVars, other, prev, runs, snapshot, slept>>

\* __download_file that makes the parent directory before it looks at the
\* suffix
NextFileMkdirFirst ==
    /\ At("iter")
    /\ \E f \in Top.todo :
          /\ log' = Append(log, Ev("start", f))
          /\ dirs' = dirs \cup {Parent(f)}
          /\ IF Suffix(BaseName(f)) \notin Range(sup_extensions)
             THEN stack' = SetTop([Top EXCEPT !.todo = @ \ {f}])
             ELSE stack' = SetTop([Top EXCEPT !.todo = @ \ {f},
                                              !.cur = f, !.pc = "open"])
    /\ UNCHANGED <<local, listing, diffVars, xVars, other, result, prev, runs, snapshot,
                   nopen, slept>>

\* the loop takes the next path __diff yields and enters __download_file:
\* a suffix outside sup_extensions returns at once, else the parent
\* directory is made
NextFile ==
    /\ At("iter")
    /\ \E f \in Top.todo :
          /\ log' = Append(log, Ev("start", f))
          /\ IF Suffix(BaseName(f)) \notin Range(sup_extensions)
             THEN /\ stack' = SetTop([Top EXCEPT !.todo = @ \ {f}])
                  /\ dirs' = dirs
             ELSE /\ stack' = SetTop([Top EXCEPT !.todo = @ \ {f},
                                                 !.cur = f, !.pc = "open"])
                  /\ dirs' = dirs \cup {Parent(f)}
    /\ UNCHANGED <<local, listing, diffVars, xVars, other, result, prev, runs, snapshot,
                   nopen, slept>>

\* open(pth, "wb"): creates the file or empties the one that is there
OpenTruncates ==
    /\ At("open")
    /\ local' = [local EXCEPT ![Top.cur] = "partial"]
    /\ stack' = SetTop([Top EXCEPT !.pc = "get"])
    /\ log' = Append(log, Ev("create", Top.cur))
    /\ UNCHANGED <<dirs, listing, diffVars, xVars, other, result, prev, runs, snapshot,
                   nopen, slept>>

\* open(pth, "xb") creates the file
OpenCreates ==
    /\ At("open")
    /\ ~Exists(local, Top.cur)
    /\ local' = [local EXCEPT ![Top.cur] = "partial"]
    /\ stack' = SetTop([Top EXCEPT !.pc = "get"])
    /\ log' = Append(log, Ev("create", Top.cur))
    /\ UNCHANGED <<dirs, listing, diffVars, xVars, other, result, prev, runs, snapshot,
                   nopen, slept>>

\* the .md5 branch without the second call of __download_file
ConflictSidecarNoRefetch ==
    /\ At("open")
    /\ Exists(local, Top.cur)
    /\ Suffix(BaseName(Top.cur)) = <<Dot, "md5">>
    /\ local' = [local EXCEPT ![Top.cur] = Absent]
    /\ log' = Append(log, Ev("unlink", Top.cur))
    /\ stack' = SetTop([Top EXCEPT !.pc = "iter", !.cur = NoPath])
    /\ UNCHANGED <<dirs, listing, diffVars, xVars, other, result, prev, runs,
                   snapshot, nopen, slept>>

\* FileExistsError on a .md5: "always reload md5 files", unlink and call
\* __download_file again
ConflictSidecar ==
    /\ At("open")
    /\ Exists(local, Top.cur)
    /\ Suffix(BaseName(Top.cur)) = <<Dot, "md5">>
    /\ local' = [local EXCEPT ![Top.cur] = Absent]
    /\ log' = Append(log, Ev("unlink", Top.cur))
    /\ UNCHANGED <<dirs, listing, diffVars, xVars, other, stack, result, prev, runs,
                   snapshot, nopen, slept>>

\* FileExistsError on another suffix: call __download_file again when the
\* checksum fails, else log "already downloaded" and return
ConflictPayload ==
    /\ At("open")
    /\ Exists(local, Top.cur)
    /\ Suffix(BaseName(Top.cur)) # <<Dot, "md5">>
    /\ IF ~checksum(Top.cur)
       THEN /\ log' = Append(log, Ev("again", Top.cur))
            /\ stack' = stack
       ELSE /\ log' = Append(log, Ev("skip", Top.cur))
            /\ stack' = SetTop([Top EXCEPT !.pc = "iter", !.cur = NoPath])
    /\ UNCHANGED <<fsVars, diffVars, xVars, other, result, prev, runs, snapshot, nopen, slept>>

\* ftp_.get(filename, target_file) writes the whole remote file
GetOk ==
    /\ At("get")
    /\ local' = [local EXCEPT ![Top.cur] = "full"]
    /\ stack' = SetTop([Top EXCEPT !.pc = "iter", !.cur = NoPath])
    /\ log' = Append(log, Ev("get", Top.cur))
    /\ UNCHANGED <<dirs, listing, diffVars, xVars, other, result, prev, runs, snapshot,
                   nopen, slept>>

\* ftp_.get raises part-way: the with of line 56 closes the file, which stays
GetFails ==
    /\ At("get")
    /\ stack' = SetTop([Top EXCEPT !.pc = "except"])
    /\ log' = Append(log, Ev("get-error", Top.cur))
    /\ UNCHANGED <<fsVars, diffVars, xVars, other, result, prev, runs, snapshot, nopen, slept>>

\* except (ftplib.error_temp, EOFError, BaseException): warn, sleep 5 seconds,
\* self.full_download(); this frame goes on with its loop when that returns
Retry ==
    /\ At("except")
    /\ slept' = slept + BackoffSeconds
    /\ log' = Append(log, Ev("retry", Top.cur))
    /\ stack' = Append(SetTop([Top EXCEPT !.pc = "iter", !.cur = NoPath]),
                       NewFrame)
    /\ UNCHANGED <<fsVars, diffVars, xVars, other, result, prev, runs, snapshot, nopen>>

\* __diff is exhausted: the next extension of sup_extensions
NextClass ==
    /\ At("iter")
    /\ Top.todo = {}
    /\ Top.ext < Len(sup_extensions)
    /\ stack' = SetTop([Top EXCEPT !.pc = "list", !.ext = @ + 1])
    /\ UNCHANGED <<fsVars, diffVars, xVars, other, result, prev, runs, snapshot, log, nopen,
                   slept>>

\* both loops are done: FTP.__exit__ closes the session, full_download returns
Return ==
    /\ At("iter")
    /\ Top.todo = {}
    /\ Top.ext = Len(sup_extensions)
    /\ nopen' = nopen - 1
    /\ stack' = SubSeq(stack, 1, Len(stack) - 1)
    /\ result' = IF Len(stack) = 1 THEN "returned" ELSE result
    /\ log' = Append(log, Ev("close", NoPath))
    /\ UNCHANGED <<fsVars, diffVars, xVars, other, prev, runs, snapshot, slept>>

\* an __exit__ that lets the exception of conn.close() go on
ReturnCloseRaises ==
    /\ At("iter")
    /\ Top.todo = {}
    /\ Top.ext = Len(sup_extensions)
    /\ nopen' = 0
    /\ stack' = <<>>
    /\ result' = "raised"
    /\ log' = Append(log, Ev("close-error", NoPath))
    /\ UNCHANGED <<fsVars, diffVars, xVars, other, prev, runs, snapshot, slept>>

\* both loops are done and conn.close() raises: FTP.__exit__ logs the
\* exception and returns None, full_download returns as usual
ReturnCloseFails ==
    /\ At("iter")
    /\ Top.todo = {}
    /\ Top.ext = Len(sup_extensions)
    /\ nopen' = nopen - 1
    /\ stack' = SubSeq(stack, 1, Len(stack) - 1)
    /\ result' = IF Len(stack) = 1 THEN "returned" ELSE result
    /\ log' = Append(log, Ev("close-error", NoPath))
    /\ UNCHANGED <<fsVars, diffVars, xVars, other, prev, runs, snapshot, slept>>

\* the remote directory: a flat list of full paths under source_dir
SyncRemotePaths == {source_dir} \X SyncNames

\* the local mirror before the first run: any of the remote directory's
\* files of the two classes, each complete
SyncLocalPaths == {p \in SyncRemotePaths : Suffix(BaseName(p)) \in Range(sup_extensions)}

Init ==
    /\ \E S \in SUBSET SyncLocalPaths : local = FsOf(S)
    /\ dirs = IF \E p \in AllPaths : Exists(local, p) THEN {source_dir} ELSE {}
    /\ \E R \in SUBSET SyncRemotePaths : listing = SeqOf(R)
    /\ DiffIdle
    /\ SyncIdle
    /\ ExtractIdle

Next ==
    \/ Call
    \/ Connect
    \/ ConnectFails
    \/ List
    \/ ListFails
    \/ NextFile
    \/ OpenCreates
    \/ ConflictSidecar
    \/ ConflictPayload
    \/ GetOk
    \/ GetFails
    \/ Retry
    \/ NextClass
    \/ Return
    \/ ReturnCloseFails

Spec == Init /\ [][Next]_vars

(***************************************************************************)
(* Two instances of the tool on the same target_dir                        *)
(*                                                                         *)
(* Two processes have each called full_download, with the same listing of  *)
(* payload files.  One of them runs, the other waits; the scheduler may    *)
(* switch between any two steps.  They share the local file system only.   *)
(***************************************************************************)
TwoPaths == {source_dir} \X {Nm("a", "gz"), Nm("b", "gz")}

\* the operating system takes the processor from the running instance and
\* gives it to the waiting one
Switch ==
    /\ other.stack # <<>>
    /\ stack' = other.stack
    /\ result' = other.result
    /\ prev' = other.prev
    /\ runs' = other.runs
    /\ snapshot' = other.snapshot
    /\ log' = other.log
    /\ nopen' = other.nopen
    /\ slept' = other.slept
    /\ other' = [stack |-> stack, result |-> result, prev |-> prev,
                 runs |-> runs, snapshot |-> snapshot, log |-> log,
                 nopen |-> nopen, slept |-> slept]
    /\ UNCHANGED <<fsVars, diffVars, xVars>>

InitTwo ==
    /\ \E S \in SUBSET TwoPaths :
          /\ local = FsOf(S)
          /\ dirs = IF S = {} THEN {} ELSE {source_dir}
    /\ \E R \in (SUBSET TwoPaths) \ {{}} : listing = SeqOf(R)
    /\ stack = <<NewFrame>>
    /\ result = "running"
    /\ prev = "idle"
    /\ runs = 1
    /\ snapshot = local
    /\ log = <<>>
    /\ nopen = 0
    /\ slept = 0
    /\ other = [stack |-> stack, result |-> result, prev |-> prev,
                runs |-> runs, snapshot |-> snapshot, log |-> log,
                nopen |-> nopen, slept |-> slept]
    /\ DiffIdle
    /\ ExtractIdle

NextTwo ==
    \/ Connect
    \/ List
    \/ NextFile
    \/ OpenCreates
    \/ ConflictPayload
    \/ GetOk
    \/ GetFails
    \/ Retry
    \/ NextClass
    \/ Return
    \/ Switch

SpecTwo == InitTwo /\ [][NextTwo]_vars

(***************************************************************************)
(* __download_file called on any path                                      *)
(*                                                                         *)
(* A caller that holds a session is about to call                          *)
(* __download_file(ftp_, f), f any path, with any files of the model in    *)
(* the local directory; the call runs as it does inside full_download, and *)
(* an exception of ftp_.get is the caller's.                               *)
(***************************************************************************)
FileLocalPaths == SyncLocalPaths \cup {Join(source_dir, Nm("c", "txt"))}

InitFile ==
    /\ \E S \in SUBSET FileLocalPaths :
          /\ local = FsOf(S)
          /\ dirs = IF S = {} THEN {} ELSE {source_dir}
    /\ listing = <<>>
    /\ \E f \in AllPaths :
          stack = <<[pc |-> "iter", ext |-> 1, todo |-> {f}, cur |-> NoPath]>>
    /\ result = "running"
    /\ prev = "idle"
    /\ runs = 1
    /\ snapshot = local
    /\ log = <<>>
    /\ nopen = 1
    /\ slept = 0
    /\ other = NoInstance
    /\ DiffIdle
    /\ ExtractIdle

NextFileCall ==
    \/ NextFile
    \/ OpenCreates
    \/ ConflictSidecar
    \/ ConflictPayload
    \/ GetOk
    \/ GetFails

SpecFile == InitFile /\ [][NextFileCall]_vars

(***************************************************************************)
(* Extractor.extract and Extractor.__gunzip_content                        *)
(*                                                                         *)
(* os.walk lists the files of the directory once, before the loop visits   *)
(* them, in no particular order; the loop visits each listed name in turn. *)
(***************************************************************************)
\* PurePath.with_suffix(""): the name without its suffix
StripSuffix(name) == SubSeq(name, 1, Len(name) - Len(Suffix(name)))

\* what gzip.open(file, "rb").read() does on a file that exists: returns
\* the decompressed bytes (of an empty file: no bytes), raises EOFError on a
\* stream cut short, raises BadGzipFile (an OSError) on other bytes
ReadOutcome(content) ==
    CASE content \in {"gzip", "empty"} -> "ok"
      [] content = "truncated" -> "EOFError"
      [] OTHER -> "BadGzipFile"

\* the permutations of the set S
Perms(S) == {s \in [1..Cardinality(S) -> S] : Range(s) = S}

AtArchive == xpc = "walk" /\ walk # <<>> /\ Suffix(Head(walk)) = <<Dot, "gz">>

\* extract(arg_ns): the first directory listing of os.walk
StartExtract ==
    /\ xpc = "idle"
    /\ walk' \in Perms({n \in ExNames : disk[n] # Absent})
    /\ disk0' = disk
    /\ xpc' = "walk"
    /\ UNCHANGED <<fsVars, diffVars, syncVars, disk, xcur, handled, processed, xlog,
                   xerr>>

\* if file.suffix == ".gz" is false: the next file
SkipFile ==
    /\ xpc = "walk" /\ walk # <<>>
    /\ Suffix(Head(walk)) # <<Dot, "gz">>
    /\ walk' = Tail(walk)
    /\ UNCHANGED <<fsVars, diffVars, syncVars, disk, disk0, xpc, xcur, handled,
                   processed, xlog,
                   xerr>>

\* the bytes an archive decompresses to: some bytes, and, under a name that
\* is itself an archive's, possibly a gzip stream
Decompressed(target) ==
    IF Suffix(target) = <<Dot, "gz">> THEN {"extracted", "gzip"} ELSE {"extracted"}

\* __gunzip_content returns: the sibling holds the decompressed bytes
GunzipOk ==
    /\ AtArchive
    /\ disk[Head(walk)] # Absent
    /\ ReadOutcome(disk[Head(walk)]) = "ok"
    /\ \E c \in Decompressed(StripSuffix(Head(walk))) :
          disk' = [disk EXCEPT ![StripSuffix(Head(walk))] = c]
    /\ xcur' = <<Head(walk), StripSuffix(Head(walk))>>
    /\ xpc' = "handler"
    /\ xerr' = "none"
    /\ UNCHANGED <<fsVars, diffVars, syncVars, disk0, walk, handled, processed, xlog>>

\* open(target_file, "wb") has made the sibling when src.read() raises
\* EOFError: except EOFError logs it and the loop goes on
GunzipTruncated ==
    /\ AtArchive
    /\ disk[Head(walk)] # Absent
    /\ ReadOutcome(disk[Head(walk)]) = "EOFError"
    /\ disk' = [disk EXCEPT ![StripSuffix(Head(walk))] = "empty"]
    /\ xlog' = xlog \cup {Head(walk)}
    /\ processed' = processed \cup {Head(walk)}
    /\ walk' = Tail(walk)
    /\ xerr' = "gunzip:EOFError"
    /\ UNCHANGED <<fsVars, diffVars, syncVars, disk0, xpc, xcur, handled>>

\* src.read() raises BadGzipFile, which is no EOFError: it leaves extract
GunzipInvalid ==
    /\ AtArchive
    /\ disk[Head(walk)] # Absent
    /\ ReadOutcome(disk[Head(walk)]) = "BadGzipFile"
    /\ disk' = [disk EXCEPT ![StripSuffix(Head(walk))] = "empty"]
    /\ processed' = processed \cup {Head(walk)}
    /\ xpc' = "raised"
    /\ xerr' = "gunzip:BadGzipFile"
    /\ UNCHANGED <<fsVars, diffVars, syncVars, disk0, walk, xcur, handled, xlog>>

\* the archive listed is no longer there: open(target_file, "wb") has made
\* the sibling when gzip.open raises FileNotFoundError, which leaves extract
GunzipMissing ==
    /\ AtArchive
    /\ disk[Head(walk)] = Absent
    /\ disk' = [disk EXCEPT ![StripSuffix(Head(walk))] = "empty"]
    /\ processed' = processed \cup {Head(walk)}
    /\ xpc' = "raised"
    /\ xerr' = "gunzip:FileNotFoundError"
    /\ UNCHANGED <<fsVars, diffVars, syncVars, disk0, walk, xcur, handled, xlog>>

\* handler(extracted) returns, extracted.unlink(missing_ok=True)
HandlerReturns ==
    /\ xpc = "handler"
    /\ handled' = Append(handled, xcur[2])
    /\ disk' = [disk EXCEPT ![xcur[2]] = Absent]
    /\ processed' = processed \cup {xcur[1]}
    /\ walk' = Tail(walk)
    /\ xpc' = "walk"
    /\ xerr' = "none"
    /\ UNCHANGED <<fsVars, diffVars, syncVars, disk0, xcur, xlog>>

\* handler(extracted) raises EOFError: except EOFError logs it, the unlink
\* is not reached, the loop goes on
HandlerRaisesEOF ==
    /\ xpc = "handler"
    /\ handled' = Append(handled, xcur[2])
    /\ xlog' = xlog \cup {xcur[1]}
    /\ processed' = processed \cup {xcur[1]}
    /\ walk' = Tail(walk)
    /\ xpc' = "walk"
    /\ xerr' = "handler:EOFError"
    /\ UNCHANGED <<fsVars, diffVars, syncVars, disk, disk0, xcur>>

\* an except clause that catches every exception of the handler
HandlerRaisesCaught ==
    /\ xpc = "handler"
    /\ handled' = Append(handled, xcur[2])
    /\ xlog' = xlog \cup {xcur[1]}
    /\ processed' = processed \cup {xcur[1]}
    /\ walk' = Tail(walk)
    /\ xpc' = "walk"
    /\ xerr' = "handler:Exception"
    /\ UNCHANGED <<fsVars, diffVars, syncVars, disk, disk0, xcur>>

\* handler(extracted) raises another exception: it leaves extract, the
\* unlink is not reached
HandlerRaises ==
    /\ xpc = "handler"
    /\ handled' = Append(handled, xcur[2])
    /\ processed' = processed \cup {xcur[1]}
    /\ xpc' = "raised"
    /\ xerr' = "handler:Exception"
    /\ UNCHANGED <<fsVars, diffVars, syncVars, disk, disk0, walk, xcur, xlog>>

\* the loop is through the listing: extract returns
FinishExtract ==
    /\ xpc = "walk" /\ walk = <<>>
    /\ xpc' = "done"
    /\ UNCHANGED <<fsVars, diffVars, syncVars, disk, disk0, walk, xcur, handled,
                   processed, xlog,
                   xerr>>

\* the directory before extract: archives of any kind, files that are not
\* archives
InitExtract ==
    /\ disk \in {d \in [ExNames -> DiskContents] :
            /\ d[Nm("a", "gz")] \in {Absent, "gzip", "truncated", "notgzip"}
            /\ d[Nm("b", "gz")] \in {Absent, "gzip", "truncated"}
            /\ d[<<"a", Dot, "gz", Dot, "gz">>] \in {Absent, "gzip"}
            /\ d[<<"a">>] \in {Absent, "data"}
            /\ d[<<"b">>] = Absent
            /\ d[Nm("c", "txt")] \in {Absent, "data"}}
    /\ disk0 = disk
    /\ walk = <<>>
    /\ xpc = "idle"
    /\ xcur = <<NoName, NoName>>
    /\ handled = <<>>
    /\ processed = {}
    /\ xlog = {}
    /\ xerr = "none"
    /\ local = EmptyFs
    /\ dirs = {}
    /\ listing = <<>>
    /\ DiffIdle
    /\ SyncIdle

NextExtract ==
    \/ StartExtract
    \/ SkipFile
    \/ GunzipOk
    \/ GunzipTruncated
    \/ GunzipInvalid
    \/ GunzipMissing
    \/ HandlerReturns
    \/ HandlerRaisesEOF
    \/ HandlerRaises
    \/ FinishExtract

SpecExtract == InitExtract /\ [][NextExtract]_vars

(***************************************************************************)
(* C1: for every listing and every local directory, and for each class,    *)
(* the names __diff yields are exactly the base names of the listing that  *)
(* carry the class's suffix minus the names of the local files of the      *)
(* mirrored directory that carry it.                                       *)
(***************************************************************************)
RemoteOfClass(ext) ==
    {listing[i][2] : i \in {j \in 1..Len(listing) :
                               Suffix(listing[j][2]) = <<Dot, ext>>}}

LocalOfClass(ext) ==
    {p[2] : p \in {q \in AllPaths : /\ q[1] = source_dir
                                    /\ local[q] # Absent
                                    /\ Suffix(q[2]) = <<Dot, ext>>}}

C1_DiffIsSetDifference ==
    dext # "" =>
        {p[2] : p \in missing} = RemoteOfClass(dext) \ LocalOfClass(dext)

\* a call that yields a name and leaves out a listed name that is local
C1_Witness ==
    /\ dext # ""
    /\ missing # {}
    /\ RemoteOfClass(dext) \cap LocalOfClass(dext) # {}

(***************************************************************************)
(* What the claims about a mirror run speak of                             *)
(***************************************************************************)
Present(fs) == {p \in AllPaths : fs[p] # Absent}

IsSidecar(p) == Suffix(p[2]) = <<Dot, "md5">>
IsPayload(p) == Suffix(p[2]) = <<Dot, "gz">>

\* the local paths of the listed files of the two classes
ListedOfClasses ==
    {<<source_dir, listing[i][2]>> :
        i \in {j \in 1..Len(listing) : IsSidecar(listing[j]) \/ IsPayload(listing[j])}}

\* the calls of the transport's get, completed or interrupted
IsGet(e) == e.op \in {"get", "get-error"}
\* the operations that change a local file
IsWrite(e) == e.op \in {"create", "unlink", "get", "get-error"}

LastOp == IF log = <<>> THEN Ev("none", NoPath) ELSE log[Len(log)]

(***************************************************************************)
(* C2: when full_download has returned once and the listing is the same, a *)
(* second full_download calls the transport's get not once and leaves the  *)
(* local mirror as it found it.                                            *)
(***************************************************************************)
C2_IdempotentSync ==
    (runs >= 2 /\ prev = "returned") =>
        /\ local = snapshot
        /\ \A i \in 1..Len(log) : ~IsGet(log[i]) /\ ~IsWrite(log[i])

\* a second run has returned after a first run that fetched files
C2_Witness ==
    /\ runs = 2
    /\ prev = "returned"
    /\ result = "returned"
    /\ \E p \in AllPaths : snapshot[p] = "full"

(***************************************************************************)
(* C3: when __download_file finds its destination present, a .gz           *)
(* destination is left as it is and logged as already downloaded, no get   *)
(* is called for it; a .md5 destination is deleted, created again and      *)
(* fetched again.  No step but the transfer into a file just created ever  *)
(* changes a .gz file that exists.                                         *)
(***************************************************************************)
C3_Step ==
    /\ \A p \in AllPaths :
          (At("open") /\ Top.cur = p /\ Exists(local, p)) =>
              IF IsPayload(p)
              THEN /\ local' = local
                   /\ log' = Append(log, Ev("skip", p))
                   /\ Running' /\ Top'.pc = "iter"
              ELSE /\ local'[p] = Absent
                   /\ log' = Append(log, Ev("unlink", p))
                   /\ Running' /\ Top'.pc = "open" /\ Top'.cur = p
    /\ \A p \in AllPaths :
          (At("open") /\ Top.cur = p /\ LastOp = Ev("unlink", p)) =>
              /\ Exists(local', p)
              /\ Running' /\ Top'.pc = "get" /\ Top'.cur = p
    /\ \A p \in AllPaths :
          (At("get") /\ Top.cur = p) =>
              log' \in {Append(log, Ev("get", p)), Append(log, Ev("get-error", p))}
    /\ \A p \in AllPaths :
          (IsPayload(p) /\ Exists(local, p) /\ ~(At("get") /\ Top.cur = p)) =>
              local'[p] = local[p]

C3_ExclusiveCreateSafety == [][C3_Step]_vars

\* one run has skipped a present .gz and has deleted and fetched a present .md5
C3_Witness ==
    /\ \E i \in 1..Len(log) : log[i].op = "skip" /\ IsPayload(log[i].arg)
    /\ \E i \in 1..Len(log) : \E j \in 1..Len(log) :
          /\ i < j
          /\ log[i].op = "unlink" /\ IsSidecar(log[i].arg)
          /\ log[j] = Ev("get", log[i].arg)

(***************************************************************************)
(* C4: a fetch interrupted by a transport error leaves no file that counts *)
(* as present: the name is fetched again by the restarted pass, so when    *)
(* full_download returns, every file whose fetch was interrupted during    *)
(* the call holds complete content.                                        *)
(***************************************************************************)
C4_NoPartialFileAtReturn ==
    result = "returned" =>
        \A i \in 1..Len(log) :
            log[i].op = "get-error" => local[log[i].arg] = "full"

(***************************************************************************)
(* C5: in a sync pass every listed .md5 file that is already present is    *)
(* deleted and fetched again, and every listed .gz file that is already    *)
(* present is skipped.                                                     *)
(***************************************************************************)
C5_SidecarsAlwaysRefreshed ==
    (runs = 1 /\ result = "returned") =>
        \A p \in ListedOfClasses \cap Present(snapshot) :
            IF IsSidecar(p)
            THEN \E i \in 1..Len(log) : \E j \in 1..Len(log) :
                    /\ i < j
                    /\ log[i] = Ev("unlink", p)
                    /\ IsGet(log[j]) /\ log[j].arg = p
            ELSE local[p] = snapshot[p]

(***************************************************************************)
(* C6: when full_download returns, the local files are exactly those       *)
(* present before the call together with the listed files of the two       *)
(* classes.                                                                *)
(***************************************************************************)
C6_MirrorAfterSync ==
    result = "returned" => Present(local) = Present(snapshot) \cup ListedOfClasses

\* an empty mirror and a listing of a.gz, a.md5, b.gz, b.md5 (and c.txt):
\* exactly those four files
C6_Witness ==
    /\ result = "returned"
    /\ runs = 1
    /\ snapshot = EmptyFs
    /\ Len(listing) = 5
    /\ Cardinality(Present(local)) = 4

(***************************************************************************)
(* C7: in every execution of full_download no fetch of a sidecar follows a *)
(* fetch of a payload.                                                     *)
(***************************************************************************)
C7_NoSidecarFetchAfterPayloadFetch ==
    \A i \in 1..Len(log) : \A j \in 1..Len(log) :
        ~(/\ i < j
          /\ IsGet(log[i]) /\ IsPayload(log[i].arg)
          /\ IsGet(log[j]) /\ IsSidecar(log[j].arg))

(***************************************************************************)
(* C8: a transport error raised while the session is opened, while the     *)
(* directory is listed or while a file is fetched never reaches the caller *)
(* of full_download.                                                       *)
(***************************************************************************)
C8_TransportErrorsNeverSurface == result # "raised"

(***************************************************************************)
(* C9: once extract is through with an archive, the archive's decompressed *)
(* sibling (its path without the .gz suffix) does not exist: when the      *)
(* handler returned, when the handler raised, and when decompression       *)
(* failed on a corrupt or truncated archive.                               *)
(***************************************************************************)
C9_NoSiblingLeft ==
    \A f \in processed : disk[StripSuffix(f)] = Absent

(***************************************************************************)
(* C10: a file whose suffix is not .gz is never given to the handler and   *)
(* never overwritten or deleted by extract, also when its name is an       *)
(* archive's name without the .gz suffix.                                  *)
(***************************************************************************)
C10_NonArchivesUntouched ==
    \A n \in ExNames :
        (xpc # "idle" /\ disk0[n] # Absent /\ Suffix(n) # <<Dot, "gz">>) =>
            /\ disk[n] = disk0[n]
            /\ \A i \in 1..Len(handled) : handled[i] # n

(***************************************************************************)
(* C11: when decompression of an archive fails because its stream is       *)
(* truncated or invalid, extract logs the error, does not call the handler *)
(* for that archive and goes on; it returns normally, and every            *)
(* well-formed archive has been given to the handler exactly once.         *)
(***************************************************************************)
TimesHandled(n) == Cardinality({i \in 1..Len(handled) : handled[i] = n})

C11_CorruptArchiveDoesNotStopWalk ==
    /\ xerr \in {"gunzip:EOFError", "gunzip:BadGzipFile"} => xpc # "raised"
    /\ \A f \in processed :
          (disk0[f] \in {"truncated", "notgzip"} /\ xerr # "gunzip:FileNotFoundError") =>
              /\ f \in xlog
              /\ TimesHandled(StripSuffix(f)) = 0
    /\ xpc = "done" =>
          \A f \in ExNames : disk0[f] = "gzip" => TimesHandled(StripSuffix(f)) = 1

(***************************************************************************)
(* C16: an exception of the handler that is no EOFError leaves extract and *)
(* stops the walk: nothing is decompressed, handled, logged or deleted     *)
(* after it.  An EOFError of the handler is logged and the walk goes on    *)
(* with the next file.                                                     *)
(***************************************************************************)
C16_Step ==
    /\ (xpc = "handler" /\ xerr' = "handler:Exception") =>
          /\ xpc' = "raised"
          /\ walk' = walk
          /\ disk' = disk
          /\ xlog' = xlog
    /\ (xpc = "handler" /\ xerr' = "handler:EOFError") =>
          /\ xpc' = "walk"
          /\ walk' = Tail(walk)
          /\ xlog' = xlog \cup {xcur[1]}
    /\ xpc # "raised"

C16_HandlerErrors == [][C16_Step]_vars

\* the handler raised EOFError for one archive, which was logged, the walk
\* went on, and the handler's other exception for a later archive left
\* extract with an archive still to visit
C16_Witness ==
    /\ xpc = "raised"
    /\ xerr = "handler:Exception"
    /\ \E i \in 2..Len(walk) : Suffix(walk[i]) = <<Dot, "gz">>
    /\ \E f \in xlog : TimesHandled(StripSuffix(f)) = 1
    /\ Len(handled) = 2

(***************************************************************************)
(* C19: whatever the directory holds and whatever the handler does, the    *)
(* .gz files of the directory and their contents are the same after        *)
(* extract as before it.                                                   *)
(***************************************************************************)
C19_ArchivesLeftInPlace ==
    xpc \in {"done", "raised"} =>
        \A n \in ExNames : Suffix(n) = <<Dot, "gz">> => disk[n] = disk0[n]

(***************************************************************************)
(* C17: __diff compares final path components only, without regard to the  *)
(* directory prefix and to letter case: a remote entry whose base name     *)
(* differs from the name of a local file of the class only by the prefix   *)
(* or only by letter case is not in the missing-set.                       *)
(***************************************************************************)
MissingNames == {BaseName(p) : p \in missing}
LocalNames(ext) == get_names(Glob(local, source_dir, ext))

C17_PrefixAndCaseInsensitive ==
    dext # "" =>
        \A i \in 1..Len(listing) :
            (\E t \in LocalNames(dext) :
                 LowerName(t) = LowerName(BaseName(listing[i])))
                => BaseName(listing[i]) \notin MissingNames

(***************************************************************************)
(* C17 as amended: the comparison is by final path component, without      *)
(* regard to the directory prefix but with regard to letter case: a remote *)
(* entry of the class is in the missing-set exactly when no local file of  *)
(* the class has the very same name, whatever the entry's directory, and   *)
(* so also when a local name differs from it by letter case only.          *)
(***************************************************************************)
C17_PrefixInsensitiveCaseSensitive ==
    dext # "" =>
        \A i \in 1..Len(listing) :
            Suffix(BaseName(listing[i])) = <<Dot, dext>> =>
                (BaseName(listing[i]) \in MissingNames
                    <=> BaseName(listing[i]) \notin LocalNames(dext))

\* one entry under another directory is left out because a local file has
\* its name; another is missing though a local name differs from it by
\* letter case only
C17_Witness ==
    /\ dext # ""
    /\ \E i \in 1..Len(listing) :
          /\ Parent(listing[i]) # source_dir
          /\ BaseName(listing[i]) \in LocalNames(dext)
          /\ BaseName(listing[i]) \notin MissingNames
    /\ \E j \in 1..Len(listing) :
          /\ BaseName(listing[j]) \in MissingNames
          /\ \E t \in LocalNames(dext) :
                LowerName(t) = LowerName(BaseName(listing[j]))

(***************************************************************************)
(* C13: the sessions open are at every moment those of the passes under    *)
(* way; a pass that ends closes its session, and when closing fails the    *)
(* failure is logged and the pass returns as it does otherwise; when the   *)
(* top-level full_download has returned or raised, no session is open.     *)
(***************************************************************************)
SessionsOfPasses ==
    /\ nopen = Cardinality({i \in 1..Len(stack) : stack[i].pc # "connect"})
    /\ result \in {"returned", "raised"} => nopen = 0

AtExit == At("iter") /\ Top.todo = {} /\ Top.ext = Len(sup_extensions)

C13_Step ==
    /\ SessionsOfPasses
    /\ SessionsOfPasses'
    /\ AtExit =>
          /\ nopen' = nopen - 1
          /\ Len(stack') = Len(stack) - 1
          /\ result' = IF Len(stack) = 1 THEN "returned" ELSE "running"
          /\ log' \in {Append(log, Ev("close", NoPath)),
                       Append(log, Ev("close-error", NoPath))}

C13_ScopedSession == [][C13_Step]_vars

\* a call has raised; the next call opened a session for its pass and one
\* for the pass it restarted, closing one of them failed, and it has returned
C13_Witness ==
    /\ prev = "raised"
    /\ result = "returned"
    /\ nopen = 0
    /\ \E i \in 1..Len(log) : log[i].op = "close-error"
    /\ \E i \in 1..Len(log) : log[i].op = "retry"

(***************************************************************************)
(* C14: when every fetch of a call of full_download fails, while the       *)
(* session opens and the directory is listed, the call restarts the pass   *)
(* again and again and never returns.                                      *)
(***************************************************************************)
C14_NeverReturnsWhenEveryFetchFails ==
    (/\ \E i \in 1..Len(log) : log[i].op = "get-error"
     /\ \A i \in 1..Len(log) : log[i].op # "get")
        => result # "returned"

(***************************************************************************)
(* C15: once a pass restarted after a failed fetch has returned, the pass  *)
(* the failure occurred in does nothing more: no listing, no deletion, no  *)
(* creation and no fetch follows the return of a pass; the enclosing       *)
(* passes only close their sessions.                                       *)
(***************************************************************************)
IsClose(e) == e.op \in {"close", "close-error"}

C15_FailedPassAbandoned ==
    \A i \in 1..Len(log) : \A j \in 1..Len(log) :
        (i < j /\ IsClose(log[i])) => IsClose(log[j])

(***************************************************************************)
(* C18: __download_file called with a path whose suffix is neither .md5    *)
(* nor .gz returns at once: no error, no call of the transport, no file    *)
(* and no directory made or changed.                                       *)
(***************************************************************************)
C18_Step ==
    \A f \in AllPaths :
        (/\ At("iter")
         /\ Top.todo = {f}
         /\ Suffix(BaseName(f)) \notin Range(sup_extensions))
            => /\ local' = local
               /\ dirs' = dirs
               /\ nopen' = nopen
               /\ result' = result
               /\ log' = Append(log, Ev("start", f))
               /\ stack' = <<[Top EXCEPT !.todo = {}]>>

C18_UnrecognizedSuffixIgnored == [][C18_Step]_vars

\* the call was made on a name that is only ".md5" (its suffix is empty), in
\* an empty directory tree, and has returned
C18_Witness ==
    /\ log = <<Ev("start", Join(source_dir, <<Dot, "md5">>))>>
    /\ At("iter")
    /\ Top.todo = {}
    /\ Top.cur = NoPath
    /\ dirs = {}
    /\ local = EmptyFs

(***************************************************************************)
(* C12: of two instances of full_download interleaved on the same local    *)
(* directory and the same listing, at most one ever creates or writes a    *)
(* given .gz destination; the instance that finds the destination present  *)
(* logs it as already downloaded, leaves it as it is and goes on with its  *)
(* pass, no error raised.                                                  *)
(***************************************************************************)
Written(l) == {l[i].arg : i \in {j \in 1..Len(l) : IsWrite(l[j])}}

NoPayloadWrittenByBoth ==
    \A p \in Written(log) \cap Written(other.log) : ~IsPayload(p)

C12_Step ==
    /\ NoPayloadWrittenByBoth
    /\ NoPayloadWrittenByBoth'
    /\ \A p \in AllPaths :
          (/\ At("open") /\ Top.cur = p
           /\ IsPayload(p) /\ Exists(local, p)
           /\ other' = other)
              => /\ local' = local
                 /\ log' = Append(log, Ev("skip", p))
                 /\ stack' = SetTop([Top EXCEPT !.pc = "iter", !.cur = NoPath])
                 /\ result' = result

C12_TwoInstanceSafety == [][C12_Step]_vars

\* both instances found a.gz missing; the other one created and fetched it,
\* this one lost the exclusive create and skipped it; both have returned
C12_Witness ==
    /\ result = "returned"
    /\ other.result = "returned"
    /\ snapshot[Join(source_dir, Nm("a", "gz"))] = Absent
    /\ \E i \in 1..Len(other.log) :
          other.log[i] = Ev("get", Join(source_dir, Nm("a", "gz")))
    /\ \E i \in 1..Len(log) :
          log[i] = Ev("skip", Join(source_dir, Nm("a", "gz")))
    /\ Join(source_dir, Nm("a", "gz")) \notin Written(log)

=============================================================================
